---- MODULE Spec2Model ----
(***************************************************************************)
(* A model of attila_https: the HTTPSConnector (server, port), the         *)
(* https_connection state machine (is_open, current working directory),    *)
(* the proxy file handle returned by open_file, and the HTTP calls the     *)
(* connection makes through the requests library.                          *)
(*                                                                         *)
(* Strings are sequences of one-character strings, so that formatting a    *)
(* URL or lower-casing a mode is computed and not assumed.                 *)
(***************************************************************************)
EXTENDS Integers, Sequences, FiniteSets, TLC

VARIABLES
    server,     \* HTTPSConnector._server
    port,       \* HTTPSConnector._port
    is_open,    \* https_connection._is_open, per connection
    cwd,        \* the connection's current working directory, or NoPath
    remote,     \* the HTTPS server: path -> body, or Absent
    handle,     \* the proxy file handle of the last open_file, or NoHandle
    last        \* the last call made on a connection or handle, and what it did

vars == <<server, port, is_open, cwd, remote, handle, last>>

-----------------------------------------------------------------------------
(* Bounds and the values the inputs are drawn from *)

\* the longest content a local temp file may reach through writes
MaxLen == 2

DEFAULT_HTTPS_PORT == 443

\* "no value" for a connection name or an operation name
None == "None"
\* "no value" where a string (a path, a mode) is expected: no string of characters
NoPath == <<"None">>
\* a path the server holds nothing for: no sequence of bytes
Absent == <<-1>>
\* the status of a call that raised before anything was sent (MissingSchema)
NotSent == 0

Conns == {"c1", "c2"}
Servers == {<<"h">>}
Ports == {DEFAULT_HTTPS_PORT, 8443}
Paths == {<<"/", "a">>, <<"/", "b", "?">>}
\* what the holder of a handle writes, one byte at a time
Bytes == {7}
\* the bodies the server may hold for a path at the start
Body(p) == IF p = <<"/", "a">> THEN <<1, 2>> ELSE <<2>>
Modes == {<<"r">>, <<"r", "b">>, <<"r", "t">>, <<"w">>, <<"w", "b">>,
          <<"a">>, <<"r", "+">>, <<"W", "B">>}

-----------------------------------------------------------------------------
(* Strings *)

\* str.lower() on one character, for the characters a mode is made of
LowerChar(ch) ==
    CASE ch = "R" -> "r"
      [] ch = "W" -> "w"
      [] ch = "A" -> "a"
      [] ch = "B" -> "b"
      [] ch = "T" -> "t"
      [] ch = "H" -> "h"
      [] ch = "P" -> "p"
      [] ch = "S" -> "s"
      [] OTHER -> ch

Lower(s) == [i \in DOMAIN s |-> LowerChar(s[i])]

DigitChar(d) == <<"0", "1", "2", "3", "4", "5", "6", "7", "8", "9">>[d + 1]

RECURSIVE IntToStr(_)
\* '%s' / str.format of a non-negative integer
IntToStr(n) == IF n < 10 THEN <<DigitChar(n)>>
               ELSE IntToStr(n \div 10) \o <<DigitChar(n % 10)>>

HTTPS_PREFIX == <<"h", "t", "t", "p", "s", ":", "/", "/">>

StartsWith(s, pre) ==
    /\ Len(s) >= Len(pre)
    /\ SubSeq(s, 1, Len(pre)) = pre

\* HTTPS_URL_TEMPLATE.format(server, path)
HTTPS_URL_TEMPLATE(srv, path) == HTTPS_PREFIX \o srv \o path

\* HTTPS_URL_PORT_TEMPLATE.format(server, port, path)
HTTPS_URL_PORT_TEMPLATE(srv, prt, path) ==
    HTTPS_PREFIX \o srv \o <<":">> \o IntToStr(prt) \o path

\* _get_url that always writes the port
_get_url_explicit(path) == HTTPS_URL_PORT_TEMPLATE(server, port, path)

\* https_connection._get_url
_get_url(path) ==
    IF port = DEFAULT_HTTPS_PORT
    THEN HTTPS_URL_TEMPLATE(server, path)
    ELSE HTTPS_URL_PORT_TEMPLATE(server, port, path)

-----------------------------------------------------------------------------
(* The requests library and the server behind it *)

\* the path the server at (server, port) is asked for by `target`, or None
\* when the target does not name that server
ServedPath(target) ==
    LET hits == {p \in Paths :
                    \/ target = HTTPS_PREFIX \o server \o <<":">> \o IntToStr(port) \o p
                    \/ /\ port = DEFAULT_HTTPS_PORT
                       /\ target = HTTPS_PREFIX \o server \o p}
    IN IF hits = {} THEN NoPath ELSE CHOOSE p \in hits : TRUE

\* One call of requests.get / put / delete: the status of the response, or
\* NotSent when the target carries no scheme (requests raises MissingSchema
\* and sends nothing).
HttpStatus(method, target) ==
    IF ~StartsWith(target, HTTPS_PREFIX) THEN NotSent
    ELSE IF ServedPath(target) = NoPath THEN 404
    ELSE IF method = "PUT" THEN 200
    ELSE IF remote[ServedPath(target)] = Absent THEN 404
    ELSE 200

\* response.ok / what raise_for_status() accepts
StatusOk(status) == status = 200

Request(method, target, body) ==
    [method |-> method, target |-> target, body |-> body,
     status |-> HttpStatus(method, target)]

\* the server's content after a request has been served
RemoteAfter(req) ==
    IF ~StatusOk(req.status) THEN remote
    ELSE IF req.method = "PUT"
         THEN [remote EXCEPT ![ServedPath(req.target)] = req.body]
    ELSE IF req.method = "DELETE"
         THEN [remote EXCEPT ![ServedPath(req.target)] = Absent]
    ELSE remote

\* iter_content() that loses the last chunk
iter_content_short(body) == [i \in 1 .. Len(body) - 1 |-> <<body[i]>>]

\* response.iter_content(): the body in chunks of one byte
iter_content(body) == [i \in 1 .. Len(body) |-> <<body[i]>>]

RECURSIVE writelines(_)
\* file.writelines(chunks) on a file opened 'wb': the chunks, one after another
writelines(chunks) ==
    IF chunks = <<>> THEN <<>>
    ELSE Head(chunks) \o writelines(Tail(chunks))

-----------------------------------------------------------------------------
(* The record of the last call: the operation, its arguments, how it ended   *)
(* ("ok", a returned value or the exception raised), the calls it made to    *)
(* requests, whether it warned, the calls of the upload routine it made, and *)
(* the strings it was given (a URL to load, the segments to join)            *)

Call(op, c, path, mode, result, reqs) ==
    [op |-> op, conn |-> c, path |-> path, mode |-> mode, result |-> result,
     reqs |-> reqs, warned |-> FALSE, uploaded |-> <<>>, args |-> <<>>]

NoCall ==
    [op |-> None, conn |-> None, path |-> NoPath, mode |-> NoPath, result |-> None,
     reqs |-> <<>>, warned |-> FALSE, uploaded |-> <<>>, args |-> <<>>]

\* no proxy file has been handed out yet
NoHandle ==
    [state |-> "none", conn |-> None, path |-> NoPath, mode |-> NoPath,
     temp |-> <<>>, pos |-> 0, writeback |-> FALSE, uploads |-> 0]

Init ==
    /\ server \in Servers
    /\ port \in Ports
    /\ is_open = [c \in Conns |-> FALSE]
    /\ cwd = [c \in Conns |-> NoPath]
    /\ remote \in {r \in [Paths -> {Absent} \cup {Body(p) : p \in Paths}] :
                      \A p \in Paths : r[p] \in {Absent, Body(p)}}
    /\ handle = NoHandle
    /\ last = NoCall

-----------------------------------------------------------------------------
(* https_connection: the life cycle *)

\* fs_connection.getcwd: the directory recorded for the connection
getcwd(c) == cwd[c]

\* fs_connection.chdir: needs an open connection, records the directory and
\* asks the server nothing; `opened` is is_open at the time of the call
fs_connection_chdir(c, opened, path) ==
    IF ~opened
    THEN [result |-> "AssertionError", cwd |-> cwd[c], reqs |-> <<>>]
    ELSE [result |-> "ok", cwd |-> path, reqs |-> <<>>]

\* chdir() that asks the server for the directory and fails when it is not there
chdir_call_validating(c, opened, path) ==
    IF opened /\ remote[path] = Absent
    THEN [result |-> "HTTPError", cwd |-> cwd[c], reqs |-> <<>>]
    ELSE fs_connection_chdir(c, opened, path)

\* chdir() that looks the directory up on the server before it records it
chdir_call_probing(c, opened, path) ==
    IF ~opened THEN fs_connection_chdir(c, opened, path)
    ELSE [result |-> "ok", cwd |-> path,
          reqs |-> <<Request("GET", _get_url(path), <<>>)>>]

\* https_connection.chdir
chdir_call(c, opened, path) == fs_connection_chdir(c, opened, path)

\* open() without its assertion
open_precondition_dropped(c) == TRUE

\* the assertion that opens https_connection.open
open_precondition(c) == ~is_open[c]

\* open() that refreshes the directory whatever was recorded before
open_refreshing(c) ==
    IF ~open_precondition(c)
    THEN /\ last' = Call("open", c, NoPath, NoPath, "AssertionError", <<>>)
         /\ UNCHANGED <<server, port, is_open, cwd, remote, handle>>
    ELSE /\ is_open' = [is_open EXCEPT ![c] = TRUE]
         /\ cwd' = [cwd EXCEPT ![c] = NoPath]
         /\ last' = Call("open", c, NoPath, NoPath, "ok", <<>>)
         /\ UNCHANGED <<server, port, remote, handle>>

\* https_connection.open
open(c) ==
    IF ~open_precondition(c)
    THEN /\ last' = Call("open", c, NoPath, NoPath, "AssertionError", <<>>)
         /\ UNCHANGED <<server, port, is_open, cwd, remote, handle>>
    ELSE LET saved == getcwd(c)
             \* super().open() has run: the connection is open from here on
             reapplied == IF saved = NoPath
                          THEN [result |-> "ok", cwd |-> getcwd(c), reqs |-> <<>>]
                          ELSE chdir_call(c, TRUE, saved)
         IN /\ is_open' = [is_open EXCEPT ![c] = TRUE]
            /\ cwd' = [cwd EXCEPT ![c] = reapplied.cwd]
            /\ last' = Call("open", c, NoPath, NoPath, reapplied.result, reapplied.reqs)
            /\ UNCHANGED <<server, port, remote, handle>>

\* close() as the base connection has it: closing twice is an error
close_asserting(c) ==
    IF ~is_open[c]
    THEN /\ last' = Call("close", c, NoPath, NoPath, "AssertionError", <<>>)
         /\ UNCHANGED <<server, port, is_open, cwd, remote, handle>>
    ELSE /\ is_open' = [is_open EXCEPT ![c] = FALSE]
         /\ last' = Call("close", c, NoPath, NoPath, "ok", <<>>)
         /\ UNCHANGED <<server, port, cwd, remote, handle>>

\* close() that closes every connection of the connector
close_all(c) ==
    /\ is_open' = [d \in DOMAIN is_open |-> FALSE]
    /\ last' = [Call("close", c, NoPath, NoPath, "ok", <<>>)
                    EXCEPT !.warned = ~is_open[c]]
    /\ UNCHANGED <<server, port, cwd, remote, handle>>

\* https_connection.close
close(c) ==
    /\ is_open' = [is_open EXCEPT ![c] = FALSE]
    /\ last' = [Call("close", c, NoPath, NoPath, "ok", <<>>)
                    EXCEPT !.warned = ~is_open[c]]
    /\ UNCHANGED <<server, port, cwd, remote, handle>>

\* https_connection.chdir, called by the user
chdir(c, path) ==
    LET r == chdir_call(c, is_open[c], path)
    IN /\ cwd' = [cwd EXCEPT ![c] = r.cwd]
       /\ last' = Call("chdir", c, path, NoPath, r.result, r.reqs)
       /\ UNCHANGED <<server, port, is_open, remote, handle>>

-----------------------------------------------------------------------------
(* https_connection: the operations on remote paths *)

\* is_dir() that takes every path for a directory
is_dir_always(path) == TRUE

\* https_connection.is_dir
is_dir(path) == FALSE

\* what raise_for_status() makes of a response
RaiseForStatus(req) ==
    IF req.status = NotSent THEN "MissingSchema"
    ELSE IF StatusOk(req.status) THEN "ok"
    ELSE "HTTPError"

\* https_connection.remove
remove(c, path) ==
    IF ~is_open[c]
    THEN /\ last' = Call("remove", c, path, NoPath, "AssertionError", <<>>)
         /\ UNCHANGED <<server, port, is_open, cwd, remote, handle>>
    ELSE IF is_dir(path)
    THEN /\ last' = Call("remove", c, path, NoPath, "OperationNotSupportedError", <<>>)
         /\ UNCHANGED <<server, port, is_open, cwd, remote, handle>>
    ELSE LET req == Request("DELETE", _get_url(path), <<>>)
         IN /\ remote' = RemoteAfter(req)
            /\ last' = Call("remove", c, path, NoPath, RaiseForStatus(req), <<req>>)
            /\ UNCHANGED <<server, port, is_open, cwd, handle>>

\* https_connection.is_file
is_file(c, path) ==
    LET req == Request("GET", _get_url(path), <<>>)
    IN /\ last' = Call("is_file", c, path, NoPath,
                       IF StatusOk(req.status) THEN "True" ELSE "False", <<req>>)
       /\ UNCHANGED <<server, port, is_open, cwd, remote, handle>>

\* an unsupported operation that checks is_open first, as remove() does
Unsupported_asserting(op, c, path) ==
    /\ last' = Call(op, c, NoPath, NoPath,
                    IF is_open[c] THEN "OperationNotSupportedError"
                    ELSE "AssertionError", <<>>)
    /\ UNCHANGED <<server, port, is_open, cwd, remote, handle>>

\* raise OperationNotSupportedError(), the whole body of an unsupported operation
Unsupported(op, c, path) ==
    /\ last' = Call(op, c, NoPath, NoPath, "OperationNotSupportedError", <<>>)
    /\ UNCHANGED <<server, port, is_open, cwd, remote, handle>>

\* https_connection.list
list(c, path) == Unsupported("list", c, path)

\* https_connection.size
size(c, path) == Unsupported("size", c, path)

\* https_connection.modified_time
modified_time(c, path) == Unsupported("modified_time", c, path)

\* https_connection.make_dir
make_dir(c, path) == Unsupported("make_dir", c, path)

\* https_connection.rename
rename(c, path, new_name) == Unsupported("rename", c, path)

UnsupportedOps == {"list", "size", "modified_time", "make_dir", "rename"}

-----------------------------------------------------------------------------
(* https_connection.open_file and the proxy file it returns *)

\* a _download that writes the body of the response before it looks at the
\* status
_download_writing_first(c, remote_path, before) ==
    IF ~is_open[c]
    THEN [result |-> "AssertionError", reqs |-> <<>>, content |-> before]
    ELSE LET req == Request("GET", _get_url(remote_path), <<>>)
         IN [result |-> RaiseForStatus(req), reqs |-> <<req>>,
             content |-> writelines(iter_content(remote[ServedPath(req.target)]))]

\* https_connection._download: the GET, and the content written to the local
\* file (`before` when the call raises before the file is opened for writing)
_download(c, remote_path, before) ==
    IF ~is_open[c]
    THEN [result |-> "AssertionError", reqs |-> <<>>, content |-> before]
    ELSE LET req == Request("GET", _get_url(remote_path), <<>>)
         IN IF RaiseForStatus(req) # "ok"
            THEN [result |-> RaiseForStatus(req), reqs |-> <<req>>, content |-> before]
            ELSE [result |-> "ok", reqs |-> <<req>>,
                  content |-> writelines(iter_content(remote[ServedPath(req.target)]))]

\* the address https_connection._upload hands to requests.put
UploadTarget(remote_path) == remote_path

\* an _upload that does not look at is_open
_upload_unchecked(c, content, remote_path) ==
    LET req == Request("PUT", UploadTarget(remote_path), content)
    IN [result |-> RaiseForStatus(req), reqs |-> <<req>>]

\* https_connection._upload, with the content of the local file
_upload(c, content, remote_path) ==
    IF ~is_open[c]
    THEN [result |-> "AssertionError", reqs |-> <<>>]
    ELSE LET req == Request("PUT", UploadTarget(remote_path), content)
         IN [result |-> RaiseForStatus(req), reqs |-> <<req>>]

\* the test for a truncating mode with 'wb' forgotten
NeedsDownload_w_only(mode) == mode # <<"w">>

\* open_file: "if we're not truncating the file, we need to copy down the data"
NeedsDownload(mode) == mode \notin {<<"w">>, <<"w", "b">>}

\* a writeback for the truncating modes only
HasWriteback_w_only(mode) == mode \in {<<"w">>, <<"w", "b">>}

\* open_file: whether the proxy file gets self._upload as its writeback
HasWriteback(mode) == mode \notin {<<"r">>, <<"r", "b">>}

Contains(s, ch) == \E i \in DOMAIN s : s[i] = ch

\* the file API: a mode that lets the holder write
CanWrite(mode) == Contains(mode, "w") \/ Contains(mode, "a") \/ Contains(mode, "+")

\* the file API: a mode that empties the file when it is opened
Truncates(mode) == Contains(mode, "w")

\* https_connection.open_file
open_file(c, path, m) ==
    /\ handle.state # "open"
    /\ IF ~is_open[c]
       THEN /\ last' = Call("open_file", c, path, m, "AssertionError", <<>>)
            /\ UNCHANGED <<server, port, is_open, cwd, remote, handle>>
       ELSE LET mode == Lower(m)
                got == IF NeedsDownload(mode)
                       THEN _download(c, path, handle.temp)
                       ELSE [result |-> "ok", reqs |-> <<>>, content |-> <<>>]
            IN /\ last' = Call("open_file", c, path, m, got.result, got.reqs)
               /\ handle' =
                    IF got.result # "ok" THEN [handle EXCEPT !.temp = got.content]
                    ELSE [state |-> "open", conn |-> c, path |-> path, mode |-> mode,
                          temp |-> IF Truncates(mode) THEN <<>> ELSE got.content,
                          pos |-> 0, writeback |-> HasWriteback(mode), uploads |-> 0]
               /\ UNCHANGED <<server, port, is_open, cwd, remote>>

\* the content of a file after `data` is written at position `at`
WriteAt(content, at, data) ==
    SubSeq(content, 1, at) \o data \o SubSeq(content, at + Len(data) + 1, Len(content))

\* one byte written through the handle, into the local temp file
write_file(b) ==
    /\ handle.state = "open"
    /\ CanWrite(handle.mode)
    /\ LET at == IF Contains(handle.mode, "a") THEN Len(handle.temp) ELSE handle.pos
           new == WriteAt(handle.temp, at, <<b>>)
       IN /\ Len(new) <= MaxLen
          /\ handle' = [handle EXCEPT !.temp = new, !.pos = at + 1]
          /\ last' = Call("write_file", handle.conn, handle.path, handle.mode, "ok", <<>>)
    /\ UNCHANGED <<server, port, is_open, cwd, remote>>

\* a handle that has been closed: its temp file is gone
Closed(h) ==
    [NoHandle EXCEPT !.state = "closed", !.conn = h.conn, !.uploads = h.uploads]

\* ProxyFile.close: the first close calls the writeback, if there is one, with
\* (local temp path, remote path); a later close does nothing
close_file ==
    /\ handle.state # "none"
    /\ IF handle.state = "open" /\ handle.writeback
       THEN LET up == _upload(handle.conn, handle.temp, handle.path)
            IN /\ handle' = Closed([handle EXCEPT !.uploads = handle.uploads + 1])
               /\ remote' = IF up.reqs = <<>> THEN remote ELSE RemoteAfter(up.reqs[1])
               /\ last' = [Call("close_file", handle.conn, handle.path, handle.mode,
                                up.result, up.reqs)
                               EXCEPT !.uploaded = <<[content |-> handle.temp,
                                                      path |-> handle.path]>>]
       ELSE /\ handle' = Closed(handle)
            /\ remote' = remote
            /\ last' = Call("close_file", handle.conn, handle.path, handle.mode,
                            "ok", <<>>)
    /\ UNCHANGED <<server, port, is_open, cwd>>

-----------------------------------------------------------------------------

\* Spec follows one connection of the connector through every operation
Active == {"c1"}

Next ==
    \/ \E c \in Active : open(c)
    \/ \E c \in Active : close(c)
    \/ \E c \in Active, p \in Paths : chdir(c, p)
    \/ \E c \in Active, p \in Paths : remove(c, p)
    \/ \E c \in Active, p \in Paths : is_file(c, p)
    \/ \E c \in Active, p \in Paths : list(c, p)
    \/ \E c \in Active, p \in Paths : size(c, p)
    \/ \E c \in Active, p \in Paths : modified_time(c, p)
    \/ \E c \in Active, p \in Paths : make_dir(c, p)
    \/ \E c \in Active, p \in Paths, n \in {<<"n">>} : rename(c, p, n)
    \/ \E c \in Active, p \in Paths, m \in Modes : open_file(c, p, m)
    \/ \E b \in Bytes : write_file(b)
    \/ close_file

Spec == Init /\ [][Next]_vars

-----------------------------------------------------------------------------
(* HTTPSConnector: a connector from a URL or from a configuration section *)

Take(s, n) == SubSeq(s, 1, n)
Drop(s, n) == SubSeq(s, n + 1, Len(s))

\* str.find from position `from`: the first index of a character of `chs`, or 0
FindFrom(s, chs, from) ==
    LET at == {i \in DOMAIN s : i >= from /\ s[i] \in chs}
    IN IF at = {} THEN 0 ELSE CHOOSE i \in at : \A j \in at : i <= j

Find(s, ch) == FindFrom(s, {ch}, 1)

\* str.rfind: the last index of the character, or 0
RFind(s, ch) ==
    LET at == {i \in DOMAIN s : s[i] = ch}
    IN IF at = {} THEN 0 ELSE CHOOSE i \in at : \A j \in at : i >= j

\* `sub in s`
HasSub(s, sub) ==
    \E i \in 1 .. Len(s) - Len(sub) + 1 : SubSeq(s, i, i + Len(sub) - 1) = sub

Digits == {"0", "1", "2", "3", "4", "5", "6", "7", "8", "9"}

DigitVal(ch) == CHOOSE d \in 0 .. 9 : DigitChar(d) = ch

RECURSIVE StrToInt(_)
\* int(s) for a non-empty string of digits
StrToInt(s) ==
    IF Len(s) = 1 THEN DigitVal(s[1])
    ELSE StrToInt(Take(s, Len(s) - 1)) * 10 + DigitVal(s[Len(s)])

\* whether int(s) raises ValueError
NotAnInt(s) == s = <<>> \/ \E i \in DOMAIN s : s[i] \notin Digits

\* the characters urlsplit allows in a scheme, among those the inputs use
SchemeChars == {"h", "t", "p", "s", "H", "T", "P", "S", "f"}

\* urllib.parse: the schemes whose last path segment may carry ;params
uses_params == {<<>>, <<"h", "t", "t", "p">>, <<"h", "t", "t", "p", "s">>,
                <<"f", "t", "p">>}

\* urllib.parse._splitparams: the params of the last path segment only
_splitparams(url) ==
    LET i == IF Find(url, "/") > 0
             THEN FindFrom(url, {";"}, RFind(url, "/"))
             ELSE Find(url, ";")
    IN IF i = 0 THEN [path |-> url, params |-> <<>>]
       ELSE [path |-> Take(url, i - 1), params |-> Drop(url, i)]

\* str.split(ch, 1) / str.partition: around the first ch; all of s when there is none
SplitAt(s, ch) ==
    IF Find(s, ch) = 0 THEN [head |-> s, tail |-> <<>>]
    ELSE [head |-> Take(s, Find(s, ch) - 1), tail |-> Drop(s, Find(s, ch))]

\* urlsplit: the scheme, lower-cased, when the text before the first ':' is one
SplitScheme(url) ==
    IF Find(url, ":") > 1 /\ \A k \in 1 .. Find(url, ":") - 1 : url[k] \in SchemeChars
    THEN [scheme |-> Lower(Take(url, Find(url, ":") - 1)),
          rest |-> Drop(url, Find(url, ":"))]
    ELSE [scheme |-> <<>>, rest |-> url]

\* urlsplit: the netloc after '//', up to the first of '/', '?', '#'
SplitNetloc(rest) ==
    IF ~StartsWith(rest, <<"/", "/">>) THEN [netloc |-> <<>>, rest |-> rest]
    ELSE IF FindFrom(rest, {"/", "?", "#"}, 3) = 0
    THEN [netloc |-> Drop(rest, 2), rest |-> <<>>]
    ELSE [netloc |-> SubSeq(rest, 3, FindFrom(rest, {"/", "?", "#"}, 3) - 1),
          rest |-> Drop(rest, FindFrom(rest, {"/", "?", "#"}, 3) - 1)]

\* urlparse: the params, split off for the schemes that use them
SplitParams(scheme, path) ==
    IF scheme \in uses_params /\ Find(path, ";") > 0
    THEN _splitparams(path)
    ELSE [path |-> path, params |-> <<>>]

\* urllib.parse.urlparse
urlparse(url) ==
    LET noscheme == SplitScheme(url).rest
        nonetloc == SplitNetloc(noscheme).rest
        nofragment == SplitAt(nonetloc, "#").head
        noquery == SplitAt(nofragment, "?").head
    IN [scheme |-> SplitScheme(url).scheme,
        netloc |-> SplitNetloc(noscheme).netloc,
        path |-> SplitParams(SplitScheme(url).scheme, noquery).path,
        params |-> SplitParams(SplitScheme(url).scheme, noquery).params,
        query |-> SplitAt(nofragment, "?").tail,
        fragment |-> SplitAt(nonetloc, "#").tail]

\* attila.strings.split_port: 'host[:port]' into host and port, the default
\* port when there is none
split_port(s, default) ==
    LET colon == Find(s, ":")
    IN IF colon = 0 THEN [server |-> s, port |-> default]
       ELSE [server |-> Take(s, colon - 1), port |-> StrToInt(Drop(s, colon))]

\* '%s:%s' % (server, port)
HostPort(srv, prt) == srv \o <<":">> \o IntToStr(prt)

\* HTTPSConnector.__init__: the server and port of the new connector
HTTPSConnector_init(s) == split_port(s, DEFAULT_HTTPS_PORT)

\* no connector has been built yet
NoConnector == server = NoPath

\* nothing has been called yet: the connector is built by the first call
FirstCall == last = NoCall

\* a connect() that also opens the connection it returns
connect_opening(c) ==
    /\ ~NoConnector
    /\ c \notin DOMAIN is_open
    /\ is_open' = is_open @@ (c :> TRUE)
    /\ cwd' = cwd @@ (c :> NoPath)
    /\ last' = Call("connect", c, NoPath, NoPath, "ok", <<>>)
    /\ UNCHANGED <<server, port, remote, handle>>

\* HTTPSConnector.connect / https_connection.__init__: a new connection of the
\* connector; it is not opened
connect(c) ==
    /\ ~NoConnector
    /\ c \notin DOMAIN is_open
    /\ is_open' = is_open @@ (c :> FALSE)
    /\ cwd' = cwd @@ (c :> NoPath)
    /\ last' = Call("connect", c, NoPath, NoPath, "ok", <<>>)
    /\ UNCHANGED <<server, port, remote, handle>>

\* a call of a class method that raised: nothing was built
Rejected(op, c, url, error) ==
    /\ last' = [Call(op, c, NoPath, NoPath, error, <<>>) EXCEPT !.args = <<url>>]
    /\ UNCHANGED <<server, port, is_open, cwd, remote, handle>>

\* HTTPSConnector.load_url; c is the connection the new Path is bound to
load_url(c, given) ==
    /\ NoConnector
    /\ FirstCall
    /\ c \notin DOMAIN is_open
    /\ LET url == IF ~HasSub(given, <<":", "/", "/">>) THEN HTTPS_PREFIX \o given
                  ELSE given
           u == urlparse(url)
           colon == Find(u.netloc, ":")
       IN IF u.params # <<>> \/ u.fragment # <<>>
          THEN Rejected("load_url", c, given, "AssertionError")
          ELSE IF Lower(u.scheme) # <<"h", "t", "t", "p", "s">>
          THEN Rejected("load_url", c, given, "AssertionError")
          ELSE IF Find(u.netloc, "@") > 0
          THEN Rejected("load_url", c, given, "AssertionError")
          ELSE IF colon > 0 /\ NotAnInt(Drop(u.netloc, colon))
          THEN Rejected("load_url", c, given, "ValueError")
          ELSE LET srv == IF colon > 0 THEN Take(u.netloc, colon - 1) ELSE u.netloc
                   prt == IF colon > 0 THEN StrToInt(Drop(u.netloc, colon))
                          ELSE DEFAULT_HTTPS_PORT
                   made == HTTPSConnector_init(HostPort(srv, prt))
               IN /\ server' = made.server
                  /\ port' = made.port
                  /\ is_open' = is_open @@ (c :> FALSE)
                  /\ cwd' = cwd @@ (c :> NoPath)
                  /\ last' = [Call("load_url", c, u.path \o <<"?">> \o u.query,
                                   NoPath, "ok", <<>>)
                                 EXCEPT !.args = <<given>>]
                  /\ UNCHANGED <<remote, handle>>

\* the Port option of a configuration section that has none
NoPortOption == <<>>

\* HTTPSConnector.load_config_section, for a section with the option Server and,
\* unless prt is NoPortOption, the option Port (its digits)
load_config_section(srv, prt) ==
    /\ NoConnector
    /\ FirstCall
    /\ LET given == IF prt # NoPortOption THEN HostPort(srv, StrToInt(prt)) ELSE srv
           made == HTTPSConnector_init(given)
       IN /\ server' = made.server
          /\ port' = made.port
          /\ last' = [Call("load_config_section", None, NoPath, NoPath, "ok", <<>>)
                         EXCEPT !.args = <<srv, prt>>]
          /\ UNCHANGED <<is_open, cwd, remote, handle>>

-----------------------------------------------------------------------------
(* SpecUrl: a connector is built from a URL or a configuration section, then *)
(* connections of it are made and used                                       *)

Hosts == {<<"h">>, <<"g">>}
PortTexts == {<<"4", "4", "3">>, <<"8", "4", "4", "3">>}
UrlSchemes == {<<>>, HTTPS_PREFIX,
               <<"H", "T", "T", "P", "S", ":", "/", "/">>,
               <<"h", "t", "t", "p", ":", "/", "/">>}
UrlPaths == {<<"/", "a">>, <<"/", "a", ";", "p">>, <<"/", "a", ";", "p", "/", "b">>}

\* the URLs given to load_url, by their parts; an empty part is a part left out
UrlParts ==
    [scheme : UrlSchemes, user : {<<>>, <<"u">>}, host : Hosts,
     port : PortTexts \cup {<<>>}, path : UrlPaths,
     query : {<<>>, <<"q">>}, fragment : {<<>>, <<"f">>}]

Opt(mark, part, after) == IF part = <<>> THEN <<>> ELSE mark \o part \o after

\* the URL string made of the parts
Render(x) ==
    x.scheme \o Opt(<<>>, x.user, <<"@">>) \o x.host \o Opt(<<":">>, x.port, <<>>)
        \o x.path \o Opt(<<"?">>, x.query, <<>>) \o Opt(<<"#">>, x.fragment, <<>>)

InitUrl ==
    /\ server = NoPath
    /\ port = DEFAULT_HTTPS_PORT
    /\ is_open = <<>>
    /\ cwd = <<>>
    /\ remote = [p \in Paths |-> Body(p)]
    /\ handle = NoHandle
    /\ last = NoCall

NextUrl ==
    \/ \E c \in Conns, x \in UrlParts : load_url(c, Render(x))
    \/ \E srv \in Hosts, prt \in PortTexts \cup {NoPortOption} :
          load_config_section(srv, prt)
    \/ \E c \in Conns : connect(c)
    \/ \E c \in DOMAIN is_open : open(c)
    \/ \E c \in DOMAIN is_open : close(c)
    \/ \E c \in DOMAIN is_open, p \in Paths : is_file(c, p)
    \/ \E c \in DOMAIN is_open, p \in Paths : remove(c, p)

SpecUrl == InitUrl /\ [][NextUrl]_vars

-----------------------------------------------------------------------------
(* https_connection.join *)

\* str.strip(chars): s without its leading and trailing characters of chars
Strip(s, chars) ==
    LET keep == {i \in DOMAIN s : s[i] \notin chars}
    IN IF keep = {} THEN <<>>
       ELSE SubSeq(s, CHOOSE i \in keep : \A j \in keep : i <= j,
                      CHOOSE i \in keep : \A j \in keep : i >= j)

\* sep.join(elements)
RECURSIVE str_join(_, _)
str_join(sep, elements) ==
    IF elements = <<>> THEN <<>>
    ELSE IF Len(elements) = 1 THEN elements[1]
    ELSE elements[1] \o sep \o str_join(sep, Tail(elements))

\* fs_connection.check_path, for a path given as a string: the string
check_path(c, element) == element

\* Path(connection=self): the path of a Path made without a path string
EmptyPath == <<>>

\* the path string of https_connection.join(*path_elements)
join_path(c, path_elements) ==
    IF path_elements # <<>>
    THEN LET starting_slash == StartsWith(path_elements[1], <<"/">>)
             stripped == [i \in DOMAIN path_elements |->
                             Strip(check_path(c, path_elements[i]), {"/", "\\"})]
         IN str_join(<<"/">>, IF starting_slash THEN <<(<<>>)>> \o stripped
                              ELSE stripped)
    ELSE EmptyPath

\* https_connection.join: the Path of the joined elements, bound to c
join(c, path_elements) ==
    /\ last' = [Call("join", c, join_path(c, path_elements), NoPath, "ok", <<>>)
                   EXCEPT !.args = path_elements]
    /\ UNCHANGED <<server, port, is_open, cwd, remote, handle>>

\* the most path elements given to one join
MaxSegs == 3

\* the path elements given to join: empty, only a slash, with a slash before
\* or after
Segments == {<<>>, <<"/">>, <<"/", "a">>, <<"b", "/">>, <<"/", "c">>}

SegmentLists == UNION {[1 .. n -> Segments] : n \in 0 .. MaxSegs}

InitJoin ==
    /\ server = <<"h">>
    /\ port = DEFAULT_HTTPS_PORT
    /\ is_open = [c \in Conns |-> FALSE]
    /\ cwd = [c \in Conns |-> NoPath]
    /\ remote = [p \in Paths |-> Body(p)]
    /\ handle = NoHandle
    /\ last = NoCall

NextJoin ==
    \/ \E c \in Active, segs \in SegmentLists : join(c, segs)
    \/ \E c \in Active : open(c)
    \/ \E c \in Active : close(c)

SpecJoin == InitJoin /\ [][NextJoin]_vars

-----------------------------------------------------------------------------
(* SpecPair: two connections of one connector, their calls interleaved *)

PairPaths == {<<"/", "a">>}
PairModes == {<<"r">>, <<"w">>}

InitPair ==
    /\ server \in Servers
    /\ port \in Ports
    /\ is_open = [c \in Conns |-> FALSE]
    /\ cwd = [c \in Conns |-> NoPath]
    /\ remote = [p \in Paths |-> Body(p)]
    /\ handle = NoHandle
    /\ last = NoCall

NextPair ==
    \/ \E c \in Conns : open(c)
    \/ \E c \in Conns : close(c)
    \/ \E c \in Conns, p \in PairPaths : chdir(c, p)
    \/ \E c \in Conns, p \in PairPaths : remove(c, p)
    \/ \E c \in Conns, p \in PairPaths, m \in PairModes : open_file(c, p, m)
    \/ close_file

SpecPair == InitPair /\ [][NextPair]_vars

-----------------------------------------------------------------------------
(* The claims *)

\* how a call ends when it raises nothing
Returned == {"ok", "True", "False"}

\* C1: open() on a connection that is already open always fails its
\* assertion and never succeeds; after the failed call is_open is still true
\* and the current directory is what it was.
C1_OpenWhenOpenFails ==
    [][\A c \in Conns :
          (last'.op = "open" /\ last'.conn = c /\ is_open[c])
              => /\ last'.result = "AssertionError"
                 /\ is_open'[c]
                 /\ cwd'[c] = cwd[c]]_vars

C1_Witness ==
    /\ last.op = "open"
    /\ last.result = "AssertionError"
    /\ is_open[last.conn]
    /\ cwd[last.conn] \in Paths

\* C2: close() never raises and always leaves the connection closed: on an
\* open connection it closes it, on a closed one (never opened, or closed
\* before, any number of times) it only warns and is_open stays false.
C2_CloseNeverRaises ==
    [][\A c \in Conns :
          (last'.op = "close" /\ last'.conn = c)
              => /\ last'.result = "ok"
                 /\ ~is_open'[c]
                 /\ last'.warned = ~is_open[c]
                 /\ last'.reqs = <<>>]_vars

C2_Witness ==
    /\ last.op = "close"
    /\ last.warned
    /\ last.result = "ok"
    /\ ~is_open[last.conn]

\* C3: a closed connection can be reopened and keeps its directory: chdir(d)
\* on an open connection records d, close() keeps it, and open() on the
\* closed connection leaves the connection open with the directory recorded
\* before; so open, chdir(d), close, open ends open in d, however often the
\* connection is closed and opened again.
C3_ReopenKeepsDirectory ==
    [][\A c \in Conns :
          /\ (last'.op = "chdir" /\ last'.conn = c /\ is_open[c])
                => (last'.result = "ok" /\ cwd'[c] = last'.path /\ is_open'[c])
          /\ (last'.op = "close" /\ last'.conn = c)
                => cwd'[c] = cwd[c]
          /\ (last'.op = "open" /\ last'.conn = c /\ ~is_open[c])
                => (last'.result = "ok" /\ is_open'[c] /\ cwd'[c] = cwd[c])]_vars

C3_Witness ==
    /\ last.op = "open"
    /\ last.result = "ok"
    /\ is_open[last.conn]
    /\ cwd[last.conn] \in Paths

\* the modes open_file takes for a truncating write, whatever their case
IsW(m) == Lower(m) \in {<<"w">>, <<"w", "b">>}

\* C4: open_file(path, "w") (and "wb") on an open connection issues no GET;
\* closing the handle calls the upload routine exactly once, with the bytes
\* written to the temp file and the same remote path, and the PUT it issues
\* carries those bytes; no upload happens before the handle is closed, and
\* none once it is closed.
C4_WriteHandleUploadsOnceAtClose ==
    [][/\ \A c \in Conns :
            (last'.op = "open_file" /\ last'.conn = c /\ is_open[c] /\ IsW(last'.mode))
                => /\ last'.result = "ok"
                   /\ last'.reqs = <<>>
                   /\ last'.uploaded = <<>>
                   /\ handle'.state = "open"
                   /\ handle'.path = last'.path
                   /\ handle'.temp = <<>>
                   /\ handle'.uploads = 0
       /\ (handle.state = "open" /\ IsW(handle.mode) /\ last'.op # "close_file")
                => /\ handle'.state = "open"
                   /\ handle'.uploads = 0
                   /\ last'.uploaded = <<>>
                   /\ \A i \in DOMAIN last'.reqs : last'.reqs[i].method # "PUT"
       /\ (handle.state = "open" /\ IsW(handle.mode) /\ last'.op = "close_file")
                => /\ handle'.state = "closed"
                   /\ handle'.uploads = 1
                   /\ last'.uploaded = <<[content |-> handle.temp, path |-> handle.path]>>
                   /\ Len(last'.reqs) <= 1
                   /\ is_open[handle.conn] => Len(last'.reqs) = 1
                   /\ \A i \in DOMAIN last'.reqs :
                          /\ last'.reqs[i].method = "PUT"
                          /\ last'.reqs[i].body = handle.temp
       /\ (handle.state = "closed" /\ handle'.state = "closed")
                => /\ handle'.uploads = handle.uploads
                   /\ last'.uploaded = <<>>
                   /\ \A i \in DOMAIN last'.reqs : last'.reqs[i].method # "PUT"]_vars

C4_Witness ==
    /\ last.op = "close_file"
    /\ last.mode = <<"w", "b">>
    /\ last.uploaded = <<[content |-> <<7, 7>>, path |-> last.path]>>
    /\ Len(last.reqs) = 1
    /\ handle.state = "closed"
    /\ handle.uploads = 1

\* C5: the PUT of the upload routine is addressed to the URL of the remote
\* path, the URL download and remove use for that path.
C5_PutTargetsUrl ==
    \A i \in DOMAIN last.reqs :
        last.reqs[i].method = "PUT" => last.reqs[i].target = _get_url(last.path)

\* C6: open_file(path, "rb") on an open connection, when the GET of the path
\* succeeds, returns a handle whose temp file already holds the remote body,
\* byte for byte, after exactly one GET of the path's URL.
C6_ReadHandleHoldsRemoteBody ==
    [][\A c \in Conns :
          (/\ last'.op = "open_file" /\ last'.conn = c /\ is_open[c]
           /\ Lower(last'.mode) = <<"r", "b">>
           /\ remote[last'.path] # Absent)
              => /\ last'.result = "ok"
                 /\ Len(last'.reqs) = 1
                 /\ last'.reqs[1].method = "GET"
                 /\ last'.reqs[1].target = _get_url(last'.path)
                 /\ handle'.state = "open"
                 /\ handle'.path = last'.path
                 /\ handle'.temp = remote[last'.path]
                 /\ remote' = remote]_vars

C6_Witness ==
    /\ last.op = "open_file"
    /\ last.mode = <<"r", "b">>
    /\ last.result = "ok"
    /\ handle.state = "open"
    /\ handle.temp = <<1, 2>>
    /\ remote[last.path] = <<1, 2>>

\* C7: a handle opened in a mode that permits no writing ("r", "rb", "rt",
\* ...) carries no write-back, so closing it issues no PUT.
C7_ReadOnlyHandleHasNoWriteback ==
    (handle.state = "open" /\ ~CanWrite(handle.mode)) => ~handle.writeback

\* C7, the other half: closing a handle that permits no writing calls no
\* upload and issues no PUT.
C7_ReadOnlyCloseIssuesNoPut ==
    [][(handle.state = "open" /\ ~CanWrite(handle.mode) /\ last'.op = "close_file")
          => (last'.uploaded = <<>> /\ last'.reqs = <<>>)]_vars

\* C8: remove(path) on an open connection issues exactly one DELETE, to the
\* path's URL, and never ends unsupported; it returns when the status is a
\* success and raises the HTTP error when it is not; on a closed connection
\* it fails its assertion and issues no DELETE.
C8_RemoveIssuesOneDelete ==
    [][\A c \in Conns :
          (last'.op = "remove" /\ last'.conn = c)
              => IF is_open[c]
                 THEN /\ Len(last'.reqs) = 1
                      /\ last'.reqs[1].method = "DELETE"
                      /\ last'.reqs[1].target = _get_url(last'.path)
                      /\ last'.result \in {"ok", "HTTPError"}
                      /\ last'.result = "ok" <=> last'.reqs[1].status = 200
                      /\ last'.reqs[1].status = 404 => last'.result = "HTTPError"
                 ELSE /\ last'.result = "AssertionError"
                      /\ last'.reqs = <<>>
                      /\ remote' = remote]_vars

C8_Witness ==
    /\ last.op = "remove"
    /\ last.result = "HTTPError"
    /\ Len(last.reqs) = 1
    /\ last.reqs[1].status = 404
    /\ is_open[last.conn]

\* C9: list, size, modified_time, make_dir and rename raise the
\* unsupported-operation error whatever the path and whether the connection
\* is open or closed, issue no request and leave is_open and the current
\* directory as they were.
C9_UnsupportedAlwaysRaise ==
    [][last'.op \in UnsupportedOps
          => /\ last'.result = "OperationNotSupportedError"
             /\ last'.reqs = <<>>
             /\ is_open' = is_open
             /\ cwd' = cwd
             /\ remote' = remote]_vars

C9_Witness ==
    /\ last.op = "rename"
    /\ last.result = "OperationNotSupportedError"
    /\ ~is_open[last.conn]
    /\ cwd[last.conn] \in Paths

\* C10: there is no error state: a call that raises (open, chdir, open_file,
\* the upload at the close of a handle, remove, the unsupported operations)
\* leaves is_open of every connection as it was before the call.
C10_FailureKeepsIsOpen ==
    [][last'.result \notin Returned => is_open' = is_open]_vars

C10_Witness ==
    /\ last.op = "open_file"
    /\ last.result = "HTTPError"
    /\ is_open[last.conn]

\* the number a port text of the inputs stands for, and back
PortNumber(text) == IF text = <<"4", "4", "3">> THEN 443 ELSE 8443
PortText(n) == IF n = 443 THEN <<"4", "4", "3">> ELSE <<"8", "4", "4", "3">>

\* C11: the request URL is "https://H" + X when the connector's port is 443
\* and "https://H:P" + X for every other port P; the connector built from a
\* URL has the URL's host and port, 443 when the URL names none, and the one
\* built from a configuration has Server and Port, 443 when Port is missing.
C11_DefaultPortElided ==
    [][/\ \A x \in UrlParts :
            (last'.op = "load_url" /\ last'.result = "ok" /\ last'.args = <<Render(x)>>)
                => /\ server' = x.host
                   /\ port' = IF x.port = <<>> THEN 443 ELSE PortNumber(x.port)
       /\ last'.op = "load_config_section"
                => /\ server' = last'.args[1]
                   /\ port' = IF last'.args[2] = <<>> THEN 443
                              ELSE PortNumber(last'.args[2])
       /\ \A i \in DOMAIN last'.reqs :
              last'.reqs[i].target =
                  IF port = 443 THEN HTTPS_PREFIX \o server \o last'.path
                  ELSE HTTPS_PREFIX \o server \o <<":">> \o PortText(port) \o last'.path]_vars

C11_Witness ==
    /\ last.op = "is_file"
    /\ port = 443
    /\ server = <<"g">>
    /\ last.reqs[1].target = <<"h", "t", "t", "p", "s", ":", "/", "/", "g", "/", "a">>

\* the URL's scheme is given and is not https, in any case of the letters
OtherScheme(x) == x.scheme # <<>> /\ Lower(x.scheme) # HTTPS_PREFIX

\* the URL's path has a params part, ';...', in one of its segments
HasParams(x) == Find(x.path, ";") > 0

\* C12: load_url rejects every URL whose scheme is present but not https,
\* whose authority has user-info, or that has a fragment or a params segment,
\* and then builds no connector and no connection; every other URL is accepted.
C12_LoadUrlRejectsExactlyMalformed ==
    [][\A x \in UrlParts :
          (last'.op = "load_url" /\ last'.args = <<Render(x)>>)
              => IF OtherScheme(x) \/ x.user # <<>> \/ x.fragment # <<>> \/ HasParams(x)
                 THEN /\ last'.result \notin Returned
                      /\ UNCHANGED <<server, port, is_open, cwd>>
                 ELSE last'.result = "ok"]_vars

\* C13: a connection is new in a step only by connect() or by load_url, it is
\* bound to the connector as it stands and it is Closed; connect() changes
\* neither the connector nor any other connection; and a connection goes from
\* Closed to Open only in a successful open() called on it.
C13_NewConnectionIsClosed ==
    [][/\ \A c \in Conns :
             (c \notin DOMAIN is_open /\ c \in DOMAIN is_open')
                 => /\ ~is_open'[c]
                    /\ last'.conn = c
                    /\ \/ last'.op = "connect" /\ server' = server /\ port' = port
                       \/ last'.op = "load_url" /\ last'.result = "ok"
       /\ last'.op = "connect"
             => /\ last'.conn \notin DOMAIN is_open
                /\ DOMAIN is_open' = DOMAIN is_open \cup {last'.conn}
                /\ \A d \in DOMAIN is_open : is_open'[d] = is_open[d]
       /\ \A c \in DOMAIN is_open :
             (~is_open[c] /\ is_open'[c])
                 => last'.op = "open" /\ last'.conn = c /\ last'.result = "ok"]_vars

\* connect() has just returned a second, Closed connection while the connection
\* behind the loaded Path has been opened by open()
C13_Witness ==
    /\ last.op = "connect" /\ last.conn = "c2"
    /\ DOMAIN is_open = {"c1", "c2"}
    /\ ~is_open["c2"] /\ is_open["c1"]

\* s without its leading slashes
NoLeadingSlash(s) ==
    LET keep == {i \in DOMAIN s : s[i] # "/"}
    IN IF keep = {} THEN <<>>
       ELSE SubSeq(s, CHOOSE i \in keep : \A j \in keep : i <= j, Len(s))

\* C14: join strips the slashes at both ends of every segment and joins the
\* results with "/"; the result starts with a slash exactly when the first
\* segment did, and then with one slash only; join of no segments is the empty
\* path; the result is bound to the connection join was called on. For every
\* sequence of segments, empty and slash-only segments included.
C14_JoinKeepsOneLeadingSlash ==
    [][last'.op = "join"
          => LET segs == last'.args
                 joined == last'.path
             IN /\ last'.result = "ok"
                /\ last'.conn \in Conns
                /\ segs = <<>> => joined = <<>>
                /\ segs # <<>>
                      => /\ StartsWith(joined, <<"/">>) <=> StartsWith(segs[1], <<"/">>)
                         /\ ~StartsWith(joined, <<"/", "/">>)
                         /\ NoLeadingSlash(joined) =
                                NoLeadingSlash(str_join(<<"/">>,
                                    [i \in DOMAIN segs |-> Strip(segs[i], {"/"})]))]_vars

\* the call made a GET that came back with a status that is no success
GetFailed(call) ==
    \E i \in DOMAIN call.reqs :
        call.reqs[i].method = "GET" /\ ~StatusOk(call.reqs[i].status)

\* C15: when open_file is called with a mode other than "w"/"wb" and the GET
\* returns a non-success status, the call raises the HTTP error, having issued
\* that one GET only; the temp file is not written and no handle is returned;
\* and a PUT is only ever issued by closing a handle that a successful
\* open_file returned, so no upload can follow the failed call.
C15_FailedDownloadWritesNothing ==
    [][/\ (last'.op = "open_file" /\ GetFailed(last'))
             => /\ Lower(last'.mode) \notin {<<"w">>, <<"w", "b">>}
                /\ last'.result = "HTTPError"
                /\ Len(last'.reqs) = 1
                /\ handle' = handle
                /\ handle'.state # "open"
                /\ remote' = remote
       /\ (last'.op = "open_file" /\ Lower(last'.mode) \notin {<<"w">>, <<"w", "b">>}
               /\ is_open[last'.conn] /\ remote[last'.path] = Absent)
             => GetFailed(last')
       /\ (handle'.state = "open" /\ handle.state # "open")
             => last'.op = "open_file" /\ last'.result = "ok"
       /\ (\E i \in DOMAIN last'.reqs : last'.reqs[i].method = "PUT")
             => last'.op = "close_file" /\ handle.state = "open"]_vars

\* open_file in append mode has just failed on a missing resource
C15_Witness ==
    /\ last.op = "open_file" /\ last.mode = <<"a">>
    /\ last.result = "HTTPError" /\ GetFailed(last)
    /\ handle.state # "open"

\* the modes that are neither a pure read nor a pure truncating write
IsMixed(m) == Lower(m) \notin {<<"r">>, <<"r", "b">>, <<"w">>, <<"w", "b">>}

C17_ConnectionsAreIndependent ==
    [][/\ \A c, d \in Conns :
             (last'.conn = c /\ d # c)
                 => /\ is_open'[d] = is_open[d]
                    /\ cwd'[d] = cwd[d]
       /\ last'.conn \in Conns
       /\ server' = server
       /\ port' = port]_vars

\* c1 has just been closed while c2, opened and moved to /a before, stays
\* open in its directory
C17_Witness ==
    /\ last.op = "close" /\ last.conn = "c1" /\ ~last.warned
    /\ ~is_open["c1"] /\ cwd["c1"] = <<"/", "a">>
    /\ is_open["c2"] /\ cwd["c2"] = <<"/", "a">>

\* C18: open() and close() issue no request: in every run, a step of open()
\* or of close() records no GET, PUT or DELETE and calls no upload, and the
\* server's content is what it was; also when open() re-applies a recorded
\* directory or finds none recorded.
C18_OpenCloseIssueNoRequest ==
    [][last'.op \in {"open", "close"}
          => /\ last'.reqs = <<>>
             /\ last'.uploaded = <<>>
             /\ remote' = remote]_vars

\* open() has re-applied the directory /a, which the server does not have,
\* and has asked the server nothing
C18_Witness ==
    /\ last.op = "open" /\ last.result = "ok" /\ last.reqs = <<>>
    /\ cwd[last.conn] = <<"/", "a">>
    /\ remote[<<"/", "a">>] = Absent

\* C19: no request is issued on behalf of a connection that is Closed: a call
\* on a closed connection, or the close of a handle of a closed connection,
\* makes no GET, PUT or DELETE; open_file, the write-back, remove and is_file
\* then fail instead.
C19_NoRequestWhenClosed ==
    [][(last'.conn \in DOMAIN is_open /\ ~is_open[last'.conn])
          => /\ last'.reqs = <<>>
             /\ last'.op \in {"open_file", "remove", "is_file"}
                   => last'.result = "AssertionError"
             /\ (last'.op = "close_file" /\ handle.state = "open" /\ handle.writeback)
                   => last'.result = "AssertionError"]_vars

=============================================================================
